---- MODULE Spec2Model ----
(***************************************************************************)
(* Model of zhmcclient/_logging.py: get_logger(), the logged_api_call      *)
(* decorator and its log_api_call wrapper, together with the part of the   *)
(* standard logging module they drive (handler lists, levels, the walk up  *)
(* the logger hierarchy when a record is emitted).                         *)
(***************************************************************************)
EXTENDS Integers, Sequences, FiniteSets, TLC

VARIABLES
    handlers,    \* logger name -> sequence of attached handlers (Logger.handlers)
    level,       \* logger name -> level set on the logger (Logger.level)
    out,         \* what the most recent log request delivered, and to whom
    obtained,    \* names of the loggers that get_logger() has returned
    thr,         \* thread -> position inside get_logger() (concurrent access)
    wrappers,    \* decoration target -> cached apifunc_str of its wrapper
    typeErrors,  \* decoration targets for which logged_api_call raised TypeError
    stack,       \* frames of the log_api_call invocations in progress
    calls,       \* per wrapper invocation: caller, log_it, outcomes
    events,      \* records submitted to the API logger, and body start/end marks
    fin,         \* values handed to the record formatting
    fout         \* the messages formatted from fin

vars == <<handlers, level, out, obtained, thr, wrappers, typeErrors, stack, calls,
          events, fin, fout>>

logVars == <<handlers, level, out, obtained>>
callVars == <<wrappers, typeErrors, stack, calls, events>>
fmtVars == <<fin, fout>>

-----------------------------------------------------------------------------
(* Bounds of the model *)

NumOutputHandlers == 1
NumThreads == 2
MaxCalls == 2

-----------------------------------------------------------------------------
(* The logging module as used by get_logger and logger.debug *)

NOTSET == 0
DEBUG == 10
WARNING == 30

API_LOGGER_NAME == "zhmcclient.api"

LoggerNames == {"root", "zhmcclient", "zhmcclient.api"}
PackageLoggerNames == {"zhmcclient", "zhmcclient.api"}
Levels == {NOTSET, DEBUG, WARNING}

NullHandler == [kind |-> "Null", id |-> 0]
OutputHandlers == {[kind |-> "Stream", id |-> i] : i \in 1..NumOutputHandlers}
StreamHandler == [kind |-> "Stream", id |-> 1]

Parent(n) ==
    CASE n = "zhmcclient.api" -> "zhmcclient"
      [] n = "zhmcclient" -> "root"
      [] OTHER -> "none"

RECURSIVE Chain(_)
Chain(n) == IF n = "root" THEN <<"root">> ELSE <<n>> \o Chain(Parent(n))

RECURSIVE SumSeq(_)
SumSeq(s) == IF s = <<>> THEN 0 ELSE Head(s) + SumSeq(Tail(s))

Count(s, x) == Len(SelectSeq(s, LAMBDA y : y = x))

RECURSIVE EffectiveLevelOn(_, _)
EffectiveLevelOn(lv, n) ==
    IF lv[n] # NOTSET THEN lv[n]
    ELSE IF n = "root" THEN NOTSET
    ELSE EffectiveLevelOn(lv, Parent(n))

isEnabledFor(lv, n, levelno) == levelno >= EffectiveLevelOn(lv, n)

\* Logger.callHandlers: every handler of the logger and of its ancestors gets
\* the record (propagate is left at its default by this package); the handler
\* of last resort is used when no handler at all was found.
callHandlers(hs, n, levelno) ==
    LET chain == Chain(n)
        found == SumSeq([i \in 1..Len(chain) |-> Len(hs[chain[i]])])
    IN [logger |-> n,
        levelno |-> levelno,
        to |-> [h \in OutputHandlers |->
                  SumSeq([i \in 1..Len(chain) |-> Count(hs[chain[i]], h)])],
        lastResort |-> (found = 0 /\ levelno >= WARNING)]

NoOut(n, levelno) ==
    [logger |-> n, levelno |-> levelno,
     to |-> [h \in OutputHandlers |-> 0], lastResort |-> FALSE]

\* Logger.debug / Logger.warning: the record is built and handled only when
\* the level is enabled for the logger.
LogRequest(hs, lv, n, levelno) ==
    IF isEnabledFor(lv, n, levelno) THEN callHandlers(hs, n, levelno)
    ELSE NoOut(n, levelno)

\* Logger.addHandler: a handler object already in the list is not added again.
addHandler(hs, n, h) ==
    IF Count(hs[n], h) > 0 THEN hs ELSE [hs EXCEPT ![n] = Append(@, h)]

\* A new NullHandler object is always a handler not yet in the list.
addNullHandler(hs, n) == [hs EXCEPT ![n] = Append(@, NullHandler)]

\* Faulty variant: the test of logger.handlers is missing.
get_logger_always_adds(hs, n) == addNullHandler(hs, n)

\* get_logger(name): the handler list of the named logger afterwards.
get_logger(hs, n) ==
    IF hs[n] = <<>> THEN addNullHandler(hs, n) ELSE hs

-----------------------------------------------------------------------------
(* Sequential use of the loggers by the package and its consumer *)

InitLog ==
    /\ handlers = [n \in LoggerNames |-> <<>>]
    /\ level = [n \in LoggerNames |-> IF n = "root" THEN WARNING ELSE NOTSET]
    /\ out = NoOut("none", NOTSET)
    /\ obtained = {}

GetLogger(n) ==
    /\ handlers' = get_logger(handlers, n)
    /\ obtained' = obtained \cup {n}
    /\ UNCHANGED <<level, out>>

AddHandler(n, h) ==
    /\ handlers' = addHandler(handlers, n, h)
    /\ UNCHANGED <<level, out, obtained>>

SetLevel(n, l) ==
    /\ level' = [level EXCEPT ![n] = l]
    /\ UNCHANGED <<handlers, out, obtained>>

Emit(n, levelno) ==
    /\ out' = LogRequest(handlers, level, n, levelno)
    /\ UNCHANGED <<handlers, level, obtained>>

-----------------------------------------------------------------------------
(* Concurrent first-time access to get_logger *)

Threads == 1..NumThreads

InitThreads == thr = [t \in Threads |-> [pc |-> "idle", name |-> "none"]]

\* line 90: logger = logging.getLogger(name)
T_GetLogger(t, n) ==
    /\ thr[t].pc = "idle"
    /\ thr' = [thr EXCEPT ![t] = [pc |-> "test", name |-> n]]
    /\ UNCHANGED <<handlers, level, out, obtained>>

\* line 91: if not logger.handlers
T_Test(t) ==
    /\ thr[t].pc = "test"
    /\ thr' = [thr EXCEPT ![t].pc =
                 IF handlers[thr[t].name] = <<>> THEN "add" ELSE "return"]
    /\ UNCHANGED <<handlers, level, out, obtained>>

\* line 92: logger.addHandler(logging.NullHandler())
T_Add(t) ==
    /\ thr[t].pc = "add"
    /\ handlers' = addNullHandler(handlers, thr[t].name)
    /\ thr' = [thr EXCEPT ![t].pc = "return"]
    /\ UNCHANGED <<level, out, obtained>>

\* line 93: return logger
T_Return(t) ==
    /\ thr[t].pc = "return"
    /\ obtained' = obtained \cup {thr[t].name}
    /\ thr' = [thr EXCEPT ![t] = [pc |-> "idle", name |-> "none"]]
    /\ UNCHANGED <<handlers, level, out>>

-----------------------------------------------------------------------------
(* Python values and their text: str objects are sequences of characters *)

Min(a, b) == IF a < b THEN a ELSE b

ZHMCCLIENT == <<"z", "h", "m", "c", "c", "l", "i", "e", "n", "t">>

\* The part of s before the first separator: s.split(sep)[0]
RECURSIVE FirstComponent(_, _)
FirstComponent(s, sep) ==
    IF s = <<>> \/ Head(s) = sep THEN <<>>
    ELSE <<Head(s)>> \o FirstComponent(Tail(s), sep)

PyStr(s) == [t |-> "str", s |-> s]
PyNone == [t |-> "None", s |-> <<>>]

\* repr() of a str without quotes, backslashes or control characters, and of None
Repr(v) ==
    IF v.t = "None" THEN <<"N", "o", "n", "e">>
    ELSE <<"'">> \o v.s \o <<"'">>

RECURSIVE JoinComma(_)
JoinComma(parts) ==
    IF parts = <<>> THEN <<>>
    ELSE IF Len(parts) = 1 THEN Head(parts)
    ELSE Head(parts) \o <<",", " ">> \o JoinComma(Tail(parts))

\* repr() of the tuple of positional arguments
ReprArgs(args) ==
    <<"(">> \o JoinComma([i \in 1..Len(args) |-> Repr(args[i])])
            \o (IF Len(args) = 1 THEN <<",">> ELSE <<>>) \o <<")">>

\* repr() of the dict of keyword arguments, a sequence of <<key, value>>
ReprKwargs(kw) ==
    <<"{">> \o JoinComma([i \in 1..Len(kw) |->
                 Repr(PyStr(kw[i][1])) \o <<":", " ">> \o Repr(kw[i][2])])
            \o <<"}">>

ARGS_PRECISION == 500
RESULT_PRECISION == 1000

\* Variant: truncation that ends the text with an ellipsis.
PrecisionWithMarker(text, n) ==
    IF Len(text) > n THEN SubSeq(text, 1, n - 3) \o <<".", ".", ".">> ELSE text

\* %.<n>r : the first n characters of the repr
Precision(text, n) == SubSeq(text, 1, Min(Len(text), n))

\* "==> %s, args: %.500r, kwargs: %.500r" % (apifunc_str, args, kwargs)
EntryMsg(name, args, kwargs) ==
    [mark |-> "==>", func |-> name,
     args |-> Precision(ReprArgs(args), ARGS_PRECISION),
     kwargs |-> Precision(ReprKwargs(kwargs), ARGS_PRECISION)]

\* "<== %s, result: %.1000r" % (apifunc_str, result)
ExitMsg(name, result) ==
    [mark |-> "<==", func |-> name,
     result |-> Precision(Repr(result), RESULT_PRECISION)]

NoMsg == [mark |-> "none"]

-----------------------------------------------------------------------------
(* The logged_api_call decorator, applied when the defining module is loaded *)

Module(name) == [known |-> TRUE, name |-> name]
NoModule == [known |-> FALSE, name |-> <<>>]

M_pkg == ZHMCCLIENT
M_cpc == ZHMCCLIENT \o <<".", "_", "c", "p", "c">>
M_mock == ZHMCCLIENT \o <<"_", "m", "o", "c", "k">>
M_main == <<"_", "_", "m", "a", "i", "n", "_", "_">>

\* What the decorator can be applied to: isfunction is inspect.isfunction(func),
\* module is inspect.getmodule(func), name is func.__name__ and definer is the
\* name of the frame in which the decorator is applied.
TargetInfo ==
    [list |-> [isfunction |-> TRUE, name |-> "list", definer |-> "CpcManager",
               module |-> Module(M_cpc)],
     find |-> [isfunction |-> TRUE, name |-> "find", definer |-> "<module>",
               module |-> Module(M_main)],
     status |-> [isfunction |-> FALSE, name |-> "status", definer |-> "Cpc",
                 module |-> NoModule]]

Targets == DOMAIN TargetInfo

\* Faulty variant: the check of the target is missing.
decorate_check_none(info) == FALSE

\* line 127: not inspect.isfunction(func) or not hasattr(module, '__name__')
decorate_raises(info) == ~info.isfunction \/ ~info.module.known

\* Faulty variant: the owner is never shown.
apifunc_str_bare(owner, fname) == fname \o "()"

\* lines 148-154
apifunc_str(owner, fname) ==
    IF owner = "<module>" THEN fname \o "()"
    ELSE owner \o "." \o fname \o "()"

InitCall ==
    /\ wrappers = <<>>
    /\ typeErrors = {}
    /\ stack = <<>>
    /\ calls = <<>>
    /\ events = <<>>

Decorated == DOMAIN wrappers

Decorate(t) ==
    /\ stack = <<>>
    /\ t \notin Decorated
    /\ t \notin typeErrors
    /\ IF decorate_raises(TargetInfo[t])
       THEN /\ typeErrors' = typeErrors \cup {t}
            /\ UNCHANGED <<wrappers, handlers, obtained>>
       ELSE /\ wrappers' = (t :> apifunc_str(TargetInfo[t].definer,
                                             TargetInfo[t].name)) @@ wrappers
            /\ handlers' = get_logger(handlers, API_LOGGER_NAME)
            /\ obtained' = obtained \cup {API_LOGGER_NAME}
            /\ UNCHANGED typeErrors
    /\ UNCHANGED <<level, out, stack, calls, events>>

-----------------------------------------------------------------------------
(* The log_api_call wrapper, run on every call of a decorated function *)

CallerModules == {Module(M_main), Module(M_cpc), Module(M_pkg), Module(M_mock),
                  NoModule}

ArgChoices ==
    {[args |-> <<PyStr(<<"a">>), PyNone>>,
      kwargs |-> << <<(<<"k">>), PyStr(<<"v">>)>> >>]}

Results == {PyNone, PyStr(<<"o", "k">>)}
Errors == {"HTTPError"}

Pending == [kind |-> "pending", val |-> PyNone]
NotInvoked == [kind |-> "none", val |-> PyNone]
Returned(v) == [kind |-> "return", val |-> v]
Raised(e) == [kind |-> "raise", val |-> e]
ResultOf(fo) == IF fo.kind = "return" THEN fo.val ELSE PyNone

\* lines 185-190: apicaller_module.__name__ raises AttributeError when
\* inspect.getmodule() found no module for the caller's frame.
caller_lookup_raises(caller) == ~caller.known

\* Faulty variant: a test for the prefix instead of the first component.
log_it_prefix(name) ==
    Len(name) < Len(ZHMCCLIENT) \/ SubSeq(name, 1, Len(ZHMCCLIENT)) # ZHMCCLIENT

\* line 199: apicaller_module_name.split('.')[0] != 'zhmcclient'
log_it(name) == FirstComponent(name, ".") # ZHMCCLIENT

Top == stack[Len(stack)]

\* The wrapper up to and including the invocation of func (lines 181-204).
Invoke(t, caller, a) ==
    LET id == Len(calls) + 1 IN
    IF caller_lookup_raises(caller)
    THEN /\ calls' = Append(calls,
                [target |-> t, caller |-> caller, log_it |-> FALSE,
                 given |-> a, invoked |-> 0, passed |-> a,
                 funcOut |-> NotInvoked, wrapOut |-> Raised("AttributeError")])
         /\ UNCHANGED <<stack, events, out>>
    ELSE LET log == log_it(caller.name) IN
         /\ calls' = Append(calls,
                [target |-> t, caller |-> caller, log_it |-> log,
                 given |-> a, invoked |-> 1, passed |-> a,
                 funcOut |-> Pending, wrapOut |-> Pending])
         /\ events' = events
              \o (IF log
                  THEN <<[ev |-> "entry", id |-> id,
                          msg |-> EntryMsg(wrappers[t], a.args, a.kwargs)]>>
                  ELSE <<>>)
              \o <<[ev |-> "call", id |-> id, msg |-> NoMsg]>>
         /\ out' = IF log
                   THEN LogRequest(handlers, level, API_LOGGER_NAME, DEBUG)
                   ELSE out
         /\ stack' = Append(stack, [id |-> id, target |-> t])

\* Faulty variant: an error of func is turned into a None result.
wrapper_swallows(fo) == IF fo.kind = "raise" THEN Returned(PyNone) ELSE fo

\* lines 204-207: the wrapper's outcome, given the outcome of func
wrapper_outcome(fo) == fo

\* Faulty variant: the exit record is submitted in a finally clause.
exit_logged_always(log, fo) == log

\* lines 204-206: the exit record is submitted when func returned and log_it
exit_logged(log, fo) == log /\ fo.kind = "return"

\* func returned or raised: the rest of the wrapper (lines 204-207).
Finish(fo) ==
    LET id == Top.id
        log == exit_logged(calls[id].log_it, fo)
    IN
    /\ calls' = [calls EXCEPT ![id].funcOut = fo,
                              ![id].wrapOut = wrapper_outcome(fo)]
    /\ events' = events
         \o <<[ev |-> fo.kind, id |-> id, msg |-> NoMsg]>>
         \o (IF log
             THEN <<[ev |-> "exit", id |-> id,
                     msg |-> ExitMsg(wrappers[Top.target], ResultOf(fo))]>>
             ELSE <<>>)
    /\ out' = IF log
              THEN LogRequest(handlers, level, API_LOGGER_NAME, DEBUG)
              ELSE out
    /\ stack' = SubSeq(stack, 1, Len(stack) - 1)

\* Code outside any decorated function calls a decorated function.
Call(t, caller, a) ==
    /\ stack = <<>>
    /\ Len(calls) < MaxCalls
    /\ t \in Decorated
    /\ Invoke(t, caller, a)
    /\ UNCHANGED <<handlers, level, obtained, wrappers, typeErrors>>

\* The body of the running decorated function calls a decorated function.
NestedCall(t, a) ==
    /\ stack # <<>>
    /\ Len(calls) < MaxCalls
    /\ t \in Decorated
    /\ Invoke(t, TargetInfo[Top.target].module, a)
    /\ UNCHANGED <<handlers, level, obtained, wrappers, typeErrors>>

FuncReturn(r) ==
    /\ stack # <<>>
    /\ Finish(Returned(r))
    /\ UNCHANGED <<handlers, level, obtained, wrappers, typeErrors>>

FuncRaise(e) ==
    /\ stack # <<>>
    /\ Finish(Raised(e))
    /\ UNCHANGED <<handlers, level, obtained, wrappers, typeErrors>>

\* The consumer configures the API logger between its calls.
Configure ==
    /\ stack = <<>>
    /\ \/ AddHandler(API_LOGGER_NAME, StreamHandler)
       \/ SetLevel(API_LOGGER_NAME, DEBUG)
    /\ UNCHANGED callVars

-----------------------------------------------------------------------------
(* Formatting of the records, for values around the precision limits *)

Chars(n) == [i \in 1..n |-> "x"]

StrLens == {0, 1, ARGS_PRECISION - 9, ARGS_PRECISION - 8, ARGS_PRECISION - 5,
            ARGS_PRECISION - 4, ARGS_PRECISION, RESULT_PRECISION - 2,
            RESULT_PRECISION - 1, RESULT_PRECISION}

NoFormat == [mark |-> "none"]

InitFormat ==
    /\ fin \in [arg : StrLens, kwarg : StrLens, result : StrLens]
    /\ fout = [entry |-> NoFormat, exit |-> NoFormat]

FormatEntry ==
    /\ fout.entry = NoFormat
    /\ fout' = [fout EXCEPT !.entry =
                  EntryMsg("find()", <<PyStr(Chars(fin.arg))>>,
                           << <<(<<"k">>), PyStr(Chars(fin.kwarg))>> >>)]
    /\ UNCHANGED fin

FormatExit ==
    /\ fout.exit = NoFormat
    /\ fout' = [fout EXCEPT !.exit = ExitMsg("find()", PyStr(Chars(fin.result)))]
    /\ UNCHANGED fin

-----------------------------------------------------------------------------
(* Specifications *)

InitIdleFormat ==
    /\ fin = [arg |-> 0, kwarg |-> 0, result |-> 0]
    /\ fout = [entry |-> NoFormat, exit |-> NoFormat]

\* Sequential use of the loggers.
Init == InitLog /\ InitThreads /\ InitCall /\ InitIdleFormat

Next ==
    \/ \E n \in PackageLoggerNames : GetLogger(n) /\ UNCHANGED <<thr, callVars, fmtVars>>
    \/ \E n \in LoggerNames, h \in OutputHandlers :
          AddHandler(n, h) /\ UNCHANGED <<thr, callVars, fmtVars>>
    \/ \E n \in LoggerNames, l \in Levels :
          SetLevel(n, l) /\ UNCHANGED <<thr, callVars, fmtVars>>
    \/ \E n \in LoggerNames, l \in {DEBUG, WARNING} :
          Emit(n, l) /\ UNCHANGED <<thr, callVars, fmtVars>>

Spec == Init /\ [][Next]_vars

\* Threads inside get_logger at the same time.
NextThreads ==
    \E t \in Threads :
        /\ \/ \E n \in PackageLoggerNames : T_GetLogger(t, n)
           \/ T_Test(t)
           \/ T_Add(t)
           \/ T_Return(t)
        /\ UNCHANGED <<callVars, fmtVars>>

SpecThreads == Init /\ [][NextThreads]_vars

\* Decoration and calls of decorated functions.
NextCall ==
    \/ \E t \in Targets : Decorate(t) /\ UNCHANGED <<thr, fmtVars>>
    \/ \E t \in Targets, c \in CallerModules, a \in ArgChoices :
          Call(t, c, a) /\ UNCHANGED <<thr, fmtVars>>
    \/ \E t \in Targets, a \in ArgChoices :
          NestedCall(t, a) /\ UNCHANGED <<thr, fmtVars>>
    \/ \E r \in Results : FuncReturn(r) /\ UNCHANGED <<thr, fmtVars>>
    \/ \E e \in Errors : FuncRaise(e) /\ UNCHANGED <<thr, fmtVars>>
    \/ Configure /\ UNCHANGED <<thr, fmtVars>>

SpecCall == Init /\ [][NextCall]_vars

\* Formatting alone.
NextFormat ==
    \/ FormatEntry /\ UNCHANGED <<logVars, thr, callVars>>
    \/ FormatExit /\ UNCHANGED <<logVars, thr, callVars>>

InitF == InitLog /\ InitThreads /\ InitCall /\ InitFormat

SpecFormat == InitF /\ [][NextFormat]_vars

-----------------------------------------------------------------------------
(* Properties *)

Idx(ev, id) == {i \in 1..Len(events) : events[i].ev = ev /\ events[i].id = id}
Has(ev, id) == Idx(ev, id) # {}
Before(ev1, ev2, id) == \A i \in Idx(ev1, id), j \in Idx(ev2, id) : i < j
IsRecord(e) == e.ev \in {"entry", "exit"}
Records == SelectSeq(events, IsRecord)
CallIds == 1..Len(calls)

\* A dotted module name inside the package: 'zhmcclient' or 'zhmcclient.<...>'
InPackage(name) ==
    \/ name = ZHMCCLIENT
    \/ /\ Len(name) > Len(ZHMCCLIENT)
       /\ SubSeq(name, 1, Len(ZHMCCLIENT) + 1) = ZHMCCLIENT \o <<".">>

HasOutputHandler(n) == \E h \in OutputHandlers : Count(handlers[n], h) > 0

RECURSIVE AnyOutputHandlerUp(_)
AnyOutputHandlerUp(n) ==
    HasOutputHandler(n) \/ (n # "root" /\ AnyOutputHandlerUp(Parent(n)))

\* C1: a call's records (the entry record when the call starts, the exit
\* record when it returns) are submitted to the API logger exactly when the
\* first dotted component of the immediate caller's module name is not
\* 'zhmcclient'; a call made from inside the package, such as the call of B
\* by the body of A, leaves no record at all, whatever the logger's level and
\* handlers are.
C1_LoggedIffExternalCaller ==
    \A id \in CallIds :
        calls[id].caller.known =>
            LET external == ~InPackage(calls[id].caller.name) IN
            /\ external <=> Cardinality(Idx("entry", id)) = 1
            /\ Has("return", id) => (external <=> Cardinality(Idx("exit", id)) = 1)
            /\ ~external => ~Has("entry", id) /\ ~Has("exit", id)

C1_Witness ==
    /\ Len(calls) = 2
    /\ stack = <<>>
    /\ calls[1].target = "list" /\ calls[1].caller = Module(M_main)
    /\ calls[2].caller = Module(M_cpc)
    /\ [i \in 1..Len(events) |-> <<events[i].ev, events[i].id>>]
         = << <<"entry", 1>>, <<"call", 1>>, <<"call", 2>>, <<"return", 2>>,
              <<"return", 1>>, <<"exit", 1>> >>
    /\ level[API_LOGGER_NAME] = DEBUG
    /\ out.to[StreamHandler] = 1

\* C2: when the wrapped function raises, the wrapper's outcome is that same
\* error, no exit record is submitted for the call, and for a caller outside
\* the package the entry record was submitted before the function started.
C2_RaisePropagatesNoExit ==
    \A id \in CallIds :
        calls[id].funcOut.kind = "raise" =>
            /\ calls[id].wrapOut = calls[id].funcOut
            /\ ~Has("exit", id)
            /\ ~InPackage(calls[id].caller.name) =>
                   /\ Has("entry", id)
                   /\ Before("entry", "call", id)
                   /\ Before("entry", "raise", id)

C2_Witness ==
    \E id \in CallIds :
        /\ calls[id].funcOut = Raised("HTTPError")
        /\ calls[id].caller = Module(M_main)
        /\ Has("entry", id)

\* C3: every call of the wrapper invokes the wrapped function exactly once
\* with the original arguments, and the wrapper's outcome is the function's
\* outcome, for every caller, including one whose module cannot be determined.
C3_WrapperIsTransparent ==
    \A id \in CallIds :
        /\ calls[id].invoked = 1
        /\ calls[id].passed = calls[id].given
        /\ calls[id].wrapOut # Pending => calls[id].wrapOut = calls[id].funcOut

\* C4: with get_logger and addHandler used one after the other, a logger never
\* carries more than one NullHandler, and none that was added after another
\* handler; a record emitted on a logger with one output handler attached
\* (and none on its ancestors) is delivered to that handler exactly once.
C4_AtMostOneNullHandler ==
    \A n \in LoggerNames :
        /\ Count(handlers[n], NullHandler) <= 1
        /\ \A i \in 2..Len(handlers[n]) : handlers[n][i] # NullHandler
        /\ \A h \in OutputHandlers, levelno \in {DEBUG, WARNING} :
              ( /\ n \in obtained
                /\ Count(handlers[n], h) = 1
                /\ n # "root" => ~AnyOutputHandlerUp(Parent(n))
                /\ isEnabledFor(level, n, levelno) )
              => LogRequest(handlers, level, n, levelno).to[h] = 1

C4_Witness ==
    /\ handlers[API_LOGGER_NAME] = <<NullHandler, StreamHandler>>
    /\ API_LOGGER_NAME \in obtained
    /\ out.logger = API_LOGGER_NAME
    /\ out.to[StreamHandler] = 1

\* C5: however the threads calling get_logger interleave, a logger never
\* carries two or more NullHandlers.
C5_OneNullHandlerUnderThreads ==
    \A n \in LoggerNames : Count(handlers[n], NullHandler) <= 1

\* C6: a record emitted on a logger obtained from get_logger, to
\* which the consumer attached no handler, reaches no output handler, those
\* of ancestor loggers included.
C6_NoPropagationToAncestors ==
    \A n \in obtained, levelno \in {DEBUG, WARNING} :
        ~HasOutputHandler(n) =>
            \A h \in OutputHandlers :
                LogRequest(handlers, level, n, levelno).to[h] = 0

\* C7: applying the decorator to something that is not a plain function
\* raises TypeError when it is applied: no wrapper exists for the target, no
\* call of it ever starts, and no call of a wrapper ends in TypeError.
C7_NonFunctionFailsAtDecoration ==
    /\ \A t \in Targets :
          ~TargetInfo[t].isfunction =>
              /\ t \notin Decorated
              /\ \A id \in CallIds : calls[id].target # t
    /\ \A id \in CallIds : calls[id].wrapOut # Raised("TypeError")

C7_Witness ==
    /\ "status" \in typeErrors
    /\ "list" \in Decorated
    /\ \E id \in CallIds : calls[id].wrapOut.kind = "return"

\* C8: the display name is 'f()' for a function decorated at module scope and
\* 'Owner.f()' for one decorated inside Owner, and every entry and exit
\* record of a call carries the name of the function called, whoever calls it
\* and however many calls came before.
C8_DisplayName ==
    /\ "find" \in Decorated => wrappers["find"] = "find()"
    /\ "list" \in Decorated => wrappers["list"] = "CpcManager.list()"
    /\ \A i \in 1..Len(events) :
          IsRecord(events[i]) =>
              events[i].msg.func =
                  (IF calls[events[i].id].target = "find" THEN "find()"
                   ELSE "CpcManager.list()")

C8_Witness ==
    /\ Len(calls) = 2
    /\ calls[1].target = "list" /\ calls[2].target = "list"
    /\ calls[1].caller = Module(M_main) /\ calls[2].caller = Module(M_mock)
    /\ Len(Records) = 4
    /\ \A i \in 1..4 : Records[i].msg.func = "CpcManager.list()"

ExpectedArgs(n) == <<"(", "'">> \o Chars(n) \o <<"'", ",", ")">>
ExpectedKwargs(n) ==
    <<"{", "'", "k", "'", ":", " ", "'">> \o Chars(n) \o <<"'", "}">>
ExpectedResult(n) == <<"'">> \o Chars(n) \o <<"'">>

IsPrefix(text, full) ==
    Len(text) <= Len(full) /\ text = SubSeq(full, 1, Len(text))

Capped(text, full, cap) ==
    /\ Len(text) <= cap
    /\ Len(full) <= cap => text = full

\* C9 as stated: the argument texts are capped at 500 characters and the
\* result text at 1000, a text within its cap is logged in full, and a text
\* over its cap is logged truncated and ended with a terminating marker, so
\* that it is not just the beginning of the representation.
C9_TruncatedWithMarker ==
    /\ fout.entry # NoFormat =>
          /\ Capped(fout.entry.args, ExpectedArgs(fin.arg), ARGS_PRECISION)
          /\ Capped(fout.entry.kwargs, ExpectedKwargs(fin.kwarg), ARGS_PRECISION)
          /\ Len(ExpectedArgs(fin.arg)) > ARGS_PRECISION =>
                ~IsPrefix(fout.entry.args, ExpectedArgs(fin.arg))
          /\ Len(ExpectedKwargs(fin.kwarg)) > ARGS_PRECISION =>
                ~IsPrefix(fout.entry.kwargs, ExpectedKwargs(fin.kwarg))
    /\ fout.exit # NoFormat =>
          /\ Capped(fout.exit.result, ExpectedResult(fin.result), RESULT_PRECISION)
          /\ Len(ExpectedResult(fin.result)) > RESULT_PRECISION =>
                ~IsPrefix(fout.exit.result, ExpectedResult(fin.result))

Cut(text, full, cap) ==
    /\ Len(text) = Min(Len(full), cap)
    /\ \A i \in 1..Len(text) : text[i] = full[i]

\* C9 as amended: the argument texts are capped at 500 characters and the
\* result text at 1000; a text within its cap is logged in full, and a text
\* over its cap is logged as exactly its first 500 (1000) characters, with
\* no marker added.
C9_TruncatedToPrefix ==
    /\ fout.entry # NoFormat =>
          /\ Cut(fout.entry.args, ExpectedArgs(fin.arg), ARGS_PRECISION)
          /\ Cut(fout.entry.kwargs, ExpectedKwargs(fin.kwarg), ARGS_PRECISION)
    /\ fout.exit # NoFormat =>
          Cut(fout.exit.result, ExpectedResult(fin.result), RESULT_PRECISION)

C9_Witness ==
    /\ fin.arg = ARGS_PRECISION - 4
    /\ fin.result = RESULT_PRECISION
    /\ fout.entry # NoFormat /\ fout.exit # NoFormat
    /\ Len(fout.entry.args) = ARGS_PRECISION
    /\ fout.entry.args[ARGS_PRECISION] = ","
    /\ Len(fout.exit.result) = RESULT_PRECISION
    /\ fout.exit.result[RESULT_PRECISION] = "x"

NumIn(ev, k) == Cardinality({i \in 1..k : events[i].ev = ev})
LoggedRaises == {id \in CallIds : Has("entry", id) /\ Has("raise", id)}

\* C10: every exit record comes after the entry record of the same call; the
\* entry record is submitted before the body of the function starts and the
\* exit record after it has returned; no prefix of the sequence holds more
\* exit records than entry records; and once all calls have finished, the
\* entry records outnumber the exit records by the number of logged calls
\* that raised.
C10_EntryExitOrder ==
    /\ \A id \in CallIds :
          /\ Has("exit", id) => Has("entry", id) /\ Has("return", id)
          /\ Before("entry", "exit", id)
          /\ Before("entry", "call", id)
          /\ Before("return", "exit", id)
          /\ Before("call", "return", id)
    /\ \A k \in 1..Len(events) : NumIn("exit", k) <= NumIn("entry", k)
    /\ stack = <<>> =>
          NumIn("entry", Len(events)) - NumIn("exit", Len(events))
              = Cardinality(LoggedRaises)

C10_Witness ==
    /\ stack = <<>>
    /\ Len(calls) = 2
    /\ NumIn("entry", Len(events)) = 2
    /\ NumIn("exit", Len(events)) = 1
    /\ Cardinality(LoggedRaises) = 1

====
